---- MODULE Spec2Model ----
(***************************************************************************)
(* Model of dedupe/dedupe_cc_dist.py: the pair partitioning, the startup   *)
(* crash recovery and checkpoint load of main, the driver loop of main,    *)
(* and the commit protocol of process_batch, over the files of one working *)
(* directory.  A process may be killed between any two file operations.    *)
(*                                                                         *)
(* Similarities are in tenths (0.5 is 5).  A checkpoint file is Absent,    *)
(* Torn (opened for writing, content not yet dumped) or holds an integer.  *)
(* File renames are the atomic POSIX os.rename.                            *)
(***************************************************************************)
EXTENDS Integers, Sequences, FiniteSets, TLC

\* ---------------------------------------------------------------- bounds
\* length of the longest candidate-pair list considered
MaxPairs == 4
\* longest batch handed to process_batch (the code's batch_size is 100000)
MaxBatch == 2
\* largest --instance_count considered
MaxInstances == 2
\* SIGINTs delivered while one process_batch call ignores them
MaxSignals == 1

\* ------------------------------------------------------------- constants
\* compare_pair: m1.jaccard(m2) > 0.5, in tenths
Threshold == 5
\* parameters of compare_pair(m1, m2, tqdm_func, global_tqdm)
ComparePairArity == 4
\* arguments of a task: (pair, m1, m2)
TaskArgCount == 3
\* arguments the pool appends to a task's own: tqdm_func, global_tqdm
PoolExtraArgs == 2
\* a file that does not exist
Absent == -1
\* a file opened with "wb" whose pickle has not been written
Torn == -2

\* ------------------------------------------------------------ the inputs
\* all_pairs.pkl: the pair at an offset, and the estimated similarity (in
\* tenths) of the two documents' minhashes.  The first three are the pairs
\* (0,1), (0,2), (1,2) with similarities 0.9, 0.3, 0.4.
PairAt(i) == <<i \div 2, (i \div 2) + 1 + (i % 2)>>

SimTable == <<9, 3, 4, 5, 6>>

SimilarityAt(i) == SimTable[(i % Len(SimTable)) + 1]

\* a batch element (pair, m1, m2); sim stands for m1.jaccard(m2)
BatchItem(i) == [pair |-> PairAt(i), sim |-> SimilarityAt(i)]

\* the batch of the len pairs from offset start on
BatchOf(start, len) == [k \in 1..len |-> BatchItem(start + k - 1)]

VARIABLES
    fs,                   \* the working directory
    pc,                   \* position of the running process; "stopped": none
    sigint,               \* disposition of SIGINT in the running process
    previous_signal_int,  \* process_batch: the disposition saved at line 59
    batch, start_offset, results, last_offset,      \* process_batch
    pair_count, instance_count, instance,           \* main: inputs
    pairs_per_instance, offset_start, next_offset,  \* main: the partition
    checkpoint_offset, offset,                      \* main: load and loop
    exit_status,          \* of the last process that ended (-1: none yet)
    commit_pre,           \* history: checkpoint when the last commit began
    commit_new,           \* history: the offset the last commit was writing
    crash_point,          \* history: where in a commit the last kill fell
    committed,            \* history: the checkpoints in place when a commit, or
                          \* the recovery of one, removed the lock marker
    ignored,              \* SIGINTs discarded in this call while the lock existed
    warnings,             \* warnings this process has logged for failed tasks
    processed             \* history: the offsets of the batches whose commit
                          \* completed (the lock was removed with the
                          \* commit's checkpoint in place)

pbVars == <<batch, start_offset, results, last_offset, previous_signal_int,
            warnings>>
mainVars == <<pair_count, instance_count, instance, pairs_per_instance,
              offset_start, next_offset, checkpoint_offset, offset>>
histVars == <<commit_pre, commit_new, crash_point, committed, processed>>
vars == <<fs, pc, sigint, pbVars, mainVars, exit_status, ignored, histVars>>

\* ------------------------------------------------------------ the files
AbsentFile == [state |-> "absent", data |-> <<>>]
TornFile == [state |-> "torn", data |-> <<>>]
PickleOf(data) == [state |-> "ok", data |-> data]

EmptyDirectory ==
    [transaction_lock |-> FALSE,
     checkpoint |-> Absent,
     checkpoint_temp |-> Absent,
     checkpoint_old |-> Absent,
     duplicates |-> [s \in 0..(MaxPairs - 1) |-> AbsentFile]]

Exists(f) == f # Absent

\* Path(transaction_lock).touch()
TouchLock(d) == [d EXCEPT !.transaction_lock = TRUE]

\* open(duplicates_file, "wb")
OpenDuplicates(d, start) == [d EXCEPT !.duplicates[start] = TornFile]

\* DumpDuplicates with the pickle left in the unflushed buffer of a file
\* object that is still open: the file stays as open() left it
DumpDuplicates_Unflushed(d, start, data) == d

\* pickle.dump(duplicates, <the open file>), closed when the call returns
DumpDuplicates(d, start, data) == [d EXCEPT !.duplicates[start] = PickleOf(data)]

\* open(checkpoint_temp_file, "wb")
OpenCheckpointTemp(d) == [d EXCEPT !.checkpoint_temp = Torn]

\* pickle.dump(last_offset, <the open file>)
DumpCheckpointTemp(d, v) == [d EXCEPT !.checkpoint_temp = v]

\* RotateOld with the checkpoint removed to make room for the new one,
\* instead of renamed to checkpoint_old
RotateOld_Remove(d) == [d EXCEPT !.checkpoint = Absent]

\* if os.path.exists(checkpoint_file): os.rename(checkpoint_file, checkpoint_old_file)
RotateOld(d) ==
    IF Exists(d.checkpoint)
    THEN [d EXCEPT !.checkpoint_old = d.checkpoint, !.checkpoint = Absent]
    ELSE d

\* PromoteTemp that copies checkpoint_temp to checkpoint and leaves it there
PromoteTemp_Copy(d) == [d EXCEPT !.checkpoint = d.checkpoint_temp]

\* os.rename(checkpoint_temp_file, checkpoint_file)
PromoteTemp(d) ==
    [d EXCEPT !.checkpoint = d.checkpoint_temp, !.checkpoint_temp = Absent]

\* os.remove(transaction_lock)
RemoveLock(d) == [d EXCEPT !.transaction_lock = FALSE]

\* ------------------------------------------------------- the comparison
\* compare_pair(m1, m2, tqdm_func, global_tqdm): m1.jaccard(m2) > 0.5
compare_pair(sim) == sim > Threshold

\* The pool calls a task (function, args) as function(*args, tqdm_func,
\* global_tqdm).  process_batch builds args = (pair, m1, m2), so compare_pair
\* receives five arguments for its four parameters and the task raises
\* TypeError instead of returning a boolean.
TaskOutcome(item) ==
    IF TaskArgCount + PoolExtraArgs = ComparePairArity
    THEN (IF compare_pair(item.sim) THEN "True" ELSE "False")
    ELSE "TypeError"

TaskFailed(r) == r = "TypeError"

\* the value pool.map leaves in results for a task: a failed one leaves None
ResultOf(item) ==
    IF TaskFailed(TaskOutcome(item)) THEN "None" ELSE TaskOutcome(item)

\* "if not is_duplicate: continue"
Truthy(r) == r = "True"

RECURSIVE Filter(_, _, _)
\* for i, is_duplicate in enumerate(results): ... duplicates.append(pair)
Filter(b, res, i) ==
    IF i > Len(b) THEN <<>>
    ELSE (IF Truthy(res[i]) THEN <<b[i].pair>> ELSE <<>>) \o Filter(b, res, i + 1)

Duplicates(b, res) == Filter(b, res, 1)

\* ------------------------------------------------------- the partition
\* int(a / b) for a >= 0: truncation towards zero
IntDiv(a, b) == IF b > 0 THEN a \div b ELSE 0 - (a \div (0 - b))

PairsPerInstance(n, count) == IntDiv(n, count)

OffsetStart(n, count, i) == PairsPerInstance(n, count) * i

NextOffset(n, count, i) == OffsetStart(n, count, i) + PairsPerInstance(n, count)

\* --------------------------------------------------------- the recovery
\* RecoveryStep with the removal of the lock marker indented into the else
\* branch: the branch that discards checkpoint_temp leaves the lock
RecoveryStep_LockKeptAfterDiscard(label, d) ==
    CASE label = "m_recover" ->
            [pc |-> IF d.transaction_lock THEN "m_rec_temp" ELSE "m_load", fs |-> d]
      [] label = "m_rec_temp" ->
            [pc |-> IF Exists(d.checkpoint_temp) THEN "m_rec_old" ELSE "m_rec_unlock",
             fs |-> d]
      [] label = "m_rec_old" ->
            [pc |-> "m_rec_rmtemp",
             fs |-> IF Exists(d.checkpoint_old)
                    THEN [d EXCEPT !.checkpoint = d.checkpoint_old,
                                   !.checkpoint_old = Absent]
                    ELSE d]
      [] label = "m_rec_rmtemp" ->
            [pc |-> "m_load", fs |-> [d EXCEPT !.checkpoint_temp = Absent]]
      [] label = "m_rec_unlock" ->
            [pc |-> "m_load", fs |-> RemoveLock(d)]

\* RecoveryStep without the test of line 143: checkpoint_old is renamed over
\* checkpoint also when checkpoint_temp does not exist
RecoveryStep_RestoresOldWithoutTemp(label, d) ==
    CASE label = "m_recover" ->
            [pc |-> IF d.transaction_lock THEN "m_rec_temp" ELSE "m_load", fs |-> d]
      [] label = "m_rec_temp" ->
            [pc |-> "m_rec_old", fs |-> d]
      [] label = "m_rec_old" ->
            [pc |-> "m_rec_rmtemp",
             fs |-> IF Exists(d.checkpoint_old)
                    THEN [d EXCEPT !.checkpoint = d.checkpoint_old,
                                   !.checkpoint_old = Absent]
                    ELSE d]
      [] label = "m_rec_rmtemp" ->
            [pc |-> "m_rec_unlock", fs |-> [d EXCEPT !.checkpoint_temp = Absent]]
      [] label = "m_rec_unlock" ->
            [pc |-> "m_load", fs |-> RemoveLock(d)]

\* One step of the startup recovery block of main: the label of the next
\* step and the directory it leaves.
RecoveryStep(label, d) ==
    CASE label = "m_recover" ->
            [pc |-> IF d.transaction_lock THEN "m_rec_temp" ELSE "m_load", fs |-> d]
      [] label = "m_rec_temp" ->
            [pc |-> IF Exists(d.checkpoint_temp) THEN "m_rec_old" ELSE "m_rec_unlock",
             fs |-> d]
      [] label = "m_rec_old" ->
            [pc |-> "m_rec_rmtemp",
             fs |-> IF Exists(d.checkpoint_old)
                    THEN [d EXCEPT !.checkpoint = d.checkpoint_old,
                                   !.checkpoint_old = Absent]
                    ELSE d]
      [] label = "m_rec_rmtemp" ->
            [pc |-> "m_rec_unlock", fs |-> [d EXCEPT !.checkpoint_temp = Absent]]
      [] label = "m_rec_unlock" ->
            [pc |-> "m_load", fs |-> RemoveLock(d)]

RecoveryLabels == {"m_recover", "m_rec_temp", "m_rec_old", "m_rec_rmtemp", "m_rec_unlock"}

RECURSIVE RunRecovery(_, _)
RunRecovery(label, d) ==
    IF label \notin RecoveryLabels THEN d
    ELSE RunRecovery(RecoveryStep(label, d).pc, RecoveryStep(label, d).fs)

\* the whole recovery block, run from its start to its end
RecoverIfCrashed(d) == RunRecovery("m_recover", d)

\* LoadCheckpoint resuming at the stored offset itself
LoadCheckpoint_NoIncrement(d, start) ==
    IF Exists(d.checkpoint) THEN d.checkpoint ELSE start

\* lines 152-157: the resume offset main loads after recovery
LoadCheckpoint(d, start) ==
    IF Exists(d.checkpoint) THEN d.checkpoint + 1 ELSE start


\* ------------------------------------------------------- initial state
NoProcess ==
    /\ pc' = "stopped"
    /\ sigint' = "default"
    /\ previous_signal_int' = "default"
    /\ batch' = <<>>
    /\ start_offset' = 0
    /\ results' = <<>>
    /\ last_offset' = 0
    /\ pair_count' = 0
    /\ instance_count' = 0
    /\ instance' = 0
    /\ pairs_per_instance' = 0
    /\ offset_start' = 0
    /\ next_offset' = 0
    /\ checkpoint_offset' = 0
    /\ offset' = 0
    /\ exit_status' = -1
    /\ ignored' = 0
    /\ warnings' = 0

InitProcess ==
    /\ pc = "stopped"
    /\ sigint = "default"
    /\ previous_signal_int = "default"
    /\ batch = <<>>
    /\ start_offset = 0
    /\ results = <<>>
    /\ last_offset = 0
    /\ pair_count = 0
    /\ instance_count = 0
    /\ instance = 0
    /\ pairs_per_instance = 0
    /\ offset_start = 0
    /\ next_offset = 0
    /\ checkpoint_offset = 0
    /\ offset = 0
    /\ exit_status = -1
    /\ ignored = 0
    /\ warnings = 0

InitHistory ==
    /\ commit_pre = Absent
    /\ commit_new = Absent
    /\ crash_point = "none"
    /\ committed = {}
    /\ processed = {}

\* a working directory in which nothing has run yet
Init ==
    /\ fs = EmptyDirectory
    /\ InitProcess
    /\ InitHistory

\* ------------------------------------------------------- process_batch
\* the labels of a process that is between the creation of the lock marker
\* and the restoring of the signal disposition
WindowLabels ==
    {"pb_open_dups", "pb_dump_dups", "pb_open_temp", "pb_dump_temp",
     "pb_rotate_old", "pb_promote", "pb_unlock", "pb_restore"}

\* The offset a caller passes as start_offset: the checkpoint is the offset
\* of the next unprocessed pair (last_offset = start_offset + len(batch)),
\* and a directory without a checkpoint starts at 0.
CurrentOffsetOf(checkpoint) == IF Exists(checkpoint) THEN checkpoint ELSE 0

CurrentOffset(d) == CurrentOffsetOf(d.checkpoint)

\* process_batch(pool, batch, start_offset, working_directory) is entered
\* with a non-empty batch of at most batch_size pairs, in a directory that
\* holds no lock marker (a fresh one, or one main's recovery has cleaned).
CallProcessBatch(len) ==
    /\ pc \in {"stopped", "pb_return"}
    /\ ~fs.transaction_lock
    /\ CurrentOffset(fs) + len <= MaxPairs
    /\ pc' = "pb_map"
    /\ start_offset' = CurrentOffset(fs)
    /\ batch' = BatchOf(CurrentOffset(fs), len)
    /\ results' = <<>>
    /\ last_offset' = 0
    /\ ignored' = 0
    /\ warnings' = 0
    /\ crash_point' = "none"
    /\ commit_pre' = Absent
    /\ commit_new' = Absent
    /\ UNCHANGED <<fs, sigint, previous_signal_int, mainVars, exit_status,
                   committed, processed>>

\* line 55: on_error = lambda _ : None, called for a failed task; it logs
\* nothing, so the warnings logged stay as they were
on_error(logged) == logged

\* lines 49-56: results = pool.map(None, tasks, on_error, on_done)
PoolMap ==
    /\ pc = "pb_map"
    /\ results' = [k \in 1..Len(batch) |-> ResultOf(batch[k])]
    /\ warnings' = IF \E k \in 1..Len(batch) : TaskFailed(TaskOutcome(batch[k]))
                   THEN on_error(warnings)
                   ELSE warnings
    /\ pc' = "pb_sigign"
    /\ UNCHANGED <<fs, sigint, previous_signal_int, batch, start_offset,
                   last_offset, mainVars, exit_status, ignored, histVars>>

\* lines 49-56, the other outcome of a failed task: pool.map raises the
\* task's exception, and process_batch ends before its transaction begins
PoolMapRaises ==
    /\ pc = "pb_map"
    /\ \E k \in 1..Len(batch) : TaskFailed(TaskOutcome(batch[k]))
    /\ pc' = "pb_raised"
    /\ exit_status' = 1
    /\ UNCHANGED <<fs, sigint, pbVars, mainVars, ignored, histVars>>

\* IgnoreSigint that reads the disposition but does not set SIG_IGN
IgnoreSigint_NotSet ==
    /\ pc = "pb_sigign"
    /\ previous_signal_int' = sigint
    /\ pc' = "pb_lock"
    /\ UNCHANGED <<fs, sigint, batch, start_offset, results, last_offset,
                   warnings, mainVars, exit_status, ignored, histVars>>

\* line 59: previous_signal_int = signal.signal(SIGINT, SIG_IGN)
IgnoreSigint ==
    /\ pc = "pb_sigign"
    /\ previous_signal_int' = sigint
    /\ sigint' = "SIG_IGN"
    /\ pc' = "pb_lock"
    /\ UNCHANGED <<fs, batch, start_offset, results, last_offset, warnings,
                   mainVars, exit_status, ignored, histVars>>

\* lines 60-61: the lock marker, and last_offset
CreateLock ==
    /\ pc = "pb_lock"
    /\ fs' = TouchLock(fs)
    /\ last_offset' = start_offset + Len(batch)
    /\ commit_pre' = fs.checkpoint
    /\ commit_new' = start_offset + Len(batch)
    /\ pc' = "pb_open_dups"
    /\ UNCHANGED <<sigint, previous_signal_int, batch, start_offset, results,
                   warnings, mainVars, exit_status, ignored, crash_point,
                   committed, processed>>

\* lines 64-74: the duplicates are filtered, and the file is opened
OpenDuplicatesFile ==
    /\ pc = "pb_open_dups"
    /\ fs' = OpenDuplicates(fs, start_offset)
    /\ pc' = "pb_dump_dups"
    /\ UNCHANGED <<sigint, pbVars, mainVars, exit_status, ignored, histVars>>

\* line 74: pickle.dump(duplicates, ...)
DumpDuplicatesFile ==
    /\ pc = "pb_dump_dups"
    /\ fs' = DumpDuplicates(fs, start_offset, Duplicates(batch, results))
    /\ pc' = "pb_open_temp"
    /\ UNCHANGED <<sigint, pbVars, mainVars, exit_status, ignored, histVars>>

\* line 77: open(checkpoint_temp_file, "wb")
OpenTempFile ==
    /\ pc = "pb_open_temp"
    /\ fs' = OpenCheckpointTemp(fs)
    /\ pc' = "pb_dump_temp"
    /\ UNCHANGED <<sigint, pbVars, mainVars, exit_status, ignored, histVars>>

\* line 77: pickle.dump(last_offset, ...)
DumpTempFile ==
    /\ pc = "pb_dump_temp"
    /\ fs' = DumpCheckpointTemp(fs, last_offset)
    /\ pc' = "pb_rotate_old"
    /\ UNCHANGED <<sigint, pbVars, mainVars, exit_status, ignored, histVars>>

\* lines 80-81
RotateOldFile ==
    /\ pc = "pb_rotate_old"
    /\ fs' = RotateOld(fs)
    /\ pc' = "pb_promote"
    /\ UNCHANGED <<sigint, pbVars, mainVars, exit_status, ignored, histVars>>

\* line 82
PromoteTempFile ==
    /\ pc = "pb_promote"
    /\ fs' = PromoteTemp(fs)
    /\ pc' = "pb_unlock"
    /\ UNCHANGED <<sigint, pbVars, mainVars, exit_status, ignored, histVars>>

\* line 85
RemoveLockFile ==
    /\ pc = "pb_unlock"
    /\ fs' = RemoveLock(fs)
    /\ committed' = committed \cup {fs.checkpoint}
    /\ processed' = processed \cup (start_offset..(start_offset + Len(batch) - 1))
    /\ pc' = "pb_restore"
    /\ UNCHANGED <<sigint, pbVars, mainVars, exit_status, ignored, commit_pre,
                   commit_new, crash_point>>

\* line 86: signal.signal(SIGINT, previous_signal_int)
RestoreSigint ==
    /\ pc = "pb_restore"
    /\ sigint' = previous_signal_int
    /\ pc' = "pb_return"
    /\ UNCHANGED <<fs, pbVars, mainVars, exit_status, ignored, histVars>>

\* ------------------------------------------------------------- signals
\* SIGINT while the disposition is SIG_IGN: the kernel discards it
SigintIgnored ==
    /\ pc # "stopped"
    /\ sigint = "SIG_IGN"
    /\ ignored < MaxSignals
    /\ ignored' = IF fs.transaction_lock THEN ignored + 1 ELSE ignored
    /\ UNCHANGED <<fs, pc, sigint, pbVars, mainVars, exit_status, histVars>>

\* SIGINT under Python's default handler: KeyboardInterrupt, which nothing
\* catches, ends the process
SigintDefault ==
    /\ pc \notin {"stopped", "m_exit", "pb_raised"}
    /\ sigint = "default"
    /\ NoProcess
    /\ UNCHANGED <<fs, histVars>>

\* the process is killed (SIGKILL, SIGTERM, power) between two steps
Kill ==
    /\ pc \notin {"stopped", "m_exit", "pb_raised"}
    /\ crash_point' = IF pc \in WindowLabels THEN pc ELSE crash_point
    /\ NoProcess
    /\ UNCHANGED <<fs, commit_pre, commit_new, committed, processed>>

\* a process that has ended is gone
ProcessEnds ==
    /\ pc \in {"m_exit", "pb_raised"}
    /\ NoProcess
    /\ UNCHANGED <<fs, histVars>>


\* ---------------------------------------------------------------- main
\* lines 111-115: all_pairs.pkl is missing
MainNoPairsFile ==
    /\ pc = "stopped"
    /\ pc' = "m_exit"
    /\ exit_status' = 0
    /\ UNCHANGED <<fs, sigint, pbVars, mainVars, ignored, histVars>>

\* lines 109-122: main is started on a pair file of n pairs as instance
\* inst of count; load_minhashes returns the empty list it builds
MainStart(n, count, inst) ==
    /\ pc = "stopped"
    /\ pair_count' = n
    /\ instance_count' = count
    /\ instance' = inst
    /\ pc' = "m_partition"
    /\ UNCHANGED <<fs, sigint, pbVars, pairs_per_instance, offset_start,
                   next_offset, checkpoint_offset, offset, exit_status, ignored, histVars>>

\* lines 124-127; int(pair_count / 0) raises ZeroDivisionError
MainPartition ==
    /\ pc = "m_partition"
    /\ IF instance_count = 0
       THEN /\ pc' = "m_exit"
            /\ exit_status' = 1
            /\ UNCHANGED <<pairs_per_instance, offset_start, next_offset>>
       ELSE /\ pairs_per_instance' = PairsPerInstance(pair_count, instance_count)
            /\ offset_start' = OffsetStart(pair_count, instance_count, instance)
            /\ next_offset' = NextOffset(pair_count, instance_count, instance)
            /\ pc' = "m_recover"
            /\ UNCHANGED exit_status
    /\ UNCHANGED <<fs, sigint, pbVars, pair_count, instance_count, instance,
                   checkpoint_offset, offset, ignored, histVars>>

\* lines 140-150, one step at a time
MainRecover ==
    /\ pc \in RecoveryLabels
    /\ pc' = RecoveryStep(pc, fs).pc
    /\ fs' = RecoveryStep(pc, fs).fs
    /\ committed' = IF pc = "m_rec_unlock" /\ Exists(fs.checkpoint)
                    THEN committed \cup {fs.checkpoint}
                    ELSE committed
    /\ processed' = IF pc = "m_rec_unlock" /\ crash_point = "pb_unlock"
                       /\ fs.checkpoint = commit_new
                    THEN processed \cup (CurrentOffsetOf(commit_pre)..(commit_new - 1))
                    ELSE processed
    /\ UNCHANGED <<sigint, pbVars, mainVars, exit_status, ignored, commit_pre,
                   commit_new, crash_point>>

\* lines 152-163
MainLoad ==
    /\ pc = "m_load"
    /\ checkpoint_offset' = LoadCheckpoint(fs, offset_start)
    /\ offset' = 0
    /\ pc' = "m_loop"
    /\ crash_point' = "none"
    /\ commit_pre' = Absent
    /\ commit_new' = Absent
    /\ UNCHANGED <<fs, sigint, pbVars, pair_count, instance_count, instance,
                   pairs_per_instance, offset_start, next_offset, exit_status,
                   ignored, committed, processed>>

\* lines 165-167: an offset below the resume offset is skipped
MainSkip ==
    /\ pc = "m_loop"
    /\ offset < pair_count
    /\ offset < checkpoint_offset
    /\ offset' = offset + 1
    /\ UNCHANGED <<fs, pc, sigint, pbVars, pair_count, instance_count, instance,
                   pairs_per_instance, offset_start, next_offset,
                   checkpoint_offset, exit_status, ignored, histVars>>

\* lines 173-174: the first offset past the instance's range ends the loop
MainBreak ==
    /\ pc = "m_loop"
    /\ offset < pair_count
    /\ ~(offset < checkpoint_offset)
    /\ ~(offset < next_offset)
    /\ pc' = "m_drain"
    /\ UNCHANGED <<fs, sigint, pbVars, mainVars, exit_status, ignored, histVars>>

\* lines 176-177: minhashes is the empty list, so minhashes[index1] raises
\* IndexError (and batch.append takes one argument, not three); main ends
\* on the first pair of its range that it would process
MainAppend ==
    /\ pc = "m_loop"
    /\ offset < pair_count
    /\ ~(offset < checkpoint_offset)
    /\ offset < next_offset
    /\ pc' = "m_exit"
    /\ exit_status' = 1
    /\ UNCHANGED <<fs, sigint, pbVars, mainVars, ignored, histVars>>

\* line 164: enumerate(pairs) is exhausted
MainExhausted ==
    /\ pc = "m_loop"
    /\ offset = pair_count
    /\ pc' = "m_drain"
    /\ UNCHANGED <<fs, sigint, pbVars, mainVars, exit_status, ignored, histVars>>

\* lines 183-184: process_batch(pool, batch, working_directory) lacks an
\* argument and would raise TypeError; with the empty batch main returns
MainDrain ==
    /\ pc = "m_drain"
    /\ pc' = "m_exit"
    /\ exit_status' = IF Len(batch) # 0 THEN 1 ELSE 0
    /\ UNCHANGED <<fs, sigint, pbVars, mainVars, ignored, histVars>>

\* ------------------------------------------------------- specifications
\* main, started on a pair file whose length is drawn from Counts
MainOn(Counts) ==
    \/ MainNoPairsFile
    \/ \E n \in Counts, count \in 0..MaxInstances, inst \in 0..MaxInstances :
          MainStart(n, count, inst)
    \/ MainPartition
    \/ MainRecover
    \/ MainLoad
    \/ MainSkip
    \/ MainBreak
    \/ MainAppend
    \/ MainExhausted
    \/ MainDrain

ProcessBatch ==
    \/ \E len \in 1..MaxBatch : CallProcessBatch(len)
    \/ PoolMap
    \/ PoolMapRaises
    \/ IgnoreSigint
    \/ CreateLock
    \/ OpenDuplicatesFile
    \/ DumpDuplicatesFile
    \/ OpenTempFile
    \/ DumpTempFile
    \/ RotateOldFile
    \/ PromoteTempFile
    \/ RemoveLockFile
    \/ RestoreSigint

\* the pair file of the working directory: the MaxPairs pairs of PairAt
Next ==
    \/ MainOn({MaxPairs})
    \/ ProcessBatch
    \/ SigintIgnored
    \/ SigintDefault
    \/ Kill
    \/ ProcessEnds

Spec == Init /\ [][Next]_vars


\* The partition, on pair files of every length up to MaxPairs, in a
\* directory in which no batch was ever committed.
NextPartition ==
    \/ MainOn(0..MaxPairs)
    \/ ProcessEnds

SpecPartition == Init /\ [][NextPartition]_vars

\* The startup recovery, from every content of the four files: a directory
\* that holds the lock marker was left by a process killed inside a commit.
CheckpointValues == {Absent} \cup (1..MaxPairs)

InitAnyDirectory ==
    /\ fs \in [transaction_lock : BOOLEAN,
               checkpoint : CheckpointValues,
               checkpoint_temp : CheckpointValues \cup {Torn},
               checkpoint_old : CheckpointValues,
               duplicates : {[s \in 0..(MaxPairs - 1) |-> AbsentFile]}]
    /\ InitProcess
    /\ commit_pre = Absent
    /\ commit_new = Absent
    /\ crash_point = IF fs.transaction_lock THEN "unknown" ELSE "none"
    /\ committed = {}
    /\ processed = {}

NextRecovery ==
    \/ MainOn({MaxPairs})
    \/ Kill
    \/ ProcessEnds

SpecRecovery == InitAnyDirectory /\ [][NextRecovery]_vars


\* ---------------------------------------------------------------- claims
\* C1: a process_batch call on a non-empty batch is killed at any point
\* after it created the lock marker; once the startup recovery has run, the
\* checkpoint file is in the state it had when the commit began (the same
\* value, or still absent) or holds start_offset + len(batch), and nothing
\* else, in particular no older checkpoint.
C1_CrashSafety ==
    (pc = "m_load" /\ crash_point \in WindowLabels) =>
        fs.checkpoint \in {commit_pre, commit_new}

\* C3: the integer in the checkpoint file, read whenever the lock marker is
\* absent, never decreases: a step that leaves the lock absent leaves a
\* checkpoint no smaller than the one last read without the lock (the one
\* before the step, or the one in place when the lock was created).
C3_CheckpointMonotonic ==
    [][~fs'.transaction_lock =>
          fs'.checkpoint >= (IF fs.transaction_lock THEN commit_pre
                                                    ELSE fs.checkpoint)]_vars


\* the DuplicateRecords of a directory: the union of its duplicates files
Records(d) ==
    UNION {{d.duplicates[s].data[k] : k \in 1..Len(d.duplicates[s].data)} :
             s \in DOMAIN d.duplicates}

\* the pairs of [0, n) whose similarity exceeds the threshold: what one
\* uninterrupted pass over [0, n) records
ConfirmedPairs(n) ==
    {PairAt(i) : i \in {j \in 0..(n - 1) : compare_pair(SimilarityAt(j))}}

\* C2: whatever commits, kills and recoveries came before, when a run of main
\* over [0, N) (one instance) has ended, the DuplicateRecords of the
\* directory are those of one uninterrupted pass over [0, N).
C2_ResumeCorrectness ==
    (pc = "m_exit" /\ instance_count = 1 /\ instance = 0) =>
        Records(fs) = ConfirmedPairs(pair_count)

\* the range [offset_start, next_offset) of instance i
RangeOf(n, count, i) == OffsetStart(n, count, i)..(NextOffset(n, count, i) - 1)

\* C4: the ranges of the instances 0 .. count-1 are pairwise disjoint, their
\* union is [0, n), and the last one ends at n (it takes the remainder).
PartitionCovers(n, count) ==
    /\ \A i, j \in 0..(count - 1) :
          i # j => RangeOf(n, count, i) \cap RangeOf(n, count, j) = {}
    /\ UNION {RangeOf(n, count, i) : i \in 0..(count - 1)} = 0..(n - 1)
    /\ NextOffset(n, count, count - 1) = n

C4_PartitionCoverage ==
    (pc = "m_recover" /\ instance_count >= 1) =>
        PartitionCovers(pair_count, instance_count)

\* C5: running the startup recovery block a second time changes nothing:
\* from every directory the block run twice leaves what the block run once
\* leaves, and the directory main's recovery has left is one the block
\* leaves as it is.
C5_IdempotentRecovery ==
    /\ RecoverIfCrashed(RecoverIfCrashed(fs)) = RecoverIfCrashed(fs)
    /\ pc = "m_load" => RecoverIfCrashed(fs) = fs

\* main's recovery has finished on a directory a killed commit had left with
\* the lock marker
C5_Witness ==
    /\ pc = "m_load"
    /\ crash_point = "unknown"
    /\ ~fs.transaction_lock
    /\ Exists(fs.checkpoint)


RECURSIVE AboveThreshold(_, _)
\* the pairs of a batch whose similarity exceeds the threshold, in batch order
AboveThreshold(b, i) ==
    IF i > Len(b) THEN <<>>
    ELSE (IF b[i].sim > Threshold THEN <<b[i].pair>> ELSE <<>>)
            \o AboveThreshold(b, i + 1)

\* C6: when process_batch returns, the checkpoint holds start_offset +
\* len(batch), the lock marker and checkpoint_temp are gone, and
\* duplicates_<start_offset> holds the pairs of the batch whose similarity
\* is above 0.5, in batch order.
C6_CommitResult ==
    pc = "pb_return" =>
        /\ fs.checkpoint = start_offset + Len(batch)
        /\ ~fs.transaction_lock
        /\ ~Exists(fs.checkpoint_temp)
        /\ fs.duplicates[start_offset] = PickleOf(AboveThreshold(batch, 1))

\* C7: after recovery, the resume offset main loads is the integer of the
\* checkpoint file plus one when the file exists, and pairs_per_instance *
\* instance when it does not.
C7_CheckpointLoad ==
    pc = "m_loop" =>
        checkpoint_offset = IF Exists(fs.checkpoint)
                            THEN fs.checkpoint + 1
                            ELSE pairs_per_instance * instance

\* main has loaded a checkpoint that a commit wrote, as an instance whose
\* range does not start at 0
C7_Witness ==
    /\ pc = "m_loop"
    /\ offset = 0
    /\ instance = 1
    /\ fs.checkpoint \in committed
    /\ checkpoint_offset = fs.checkpoint + 1

\* the labels of a process inside process_batch
BatchLabels == {"pb_map", "pb_sigign", "pb_lock", "pb_return"} \cup WindowLabels

\* what process_batch writes to duplicates_<start> for the len pairs from start
DuplicatesOf(start, len) ==
    Duplicates(BatchOf(start, len),
               [k \in 1..len |-> ResultOf(BatchOf(start, len)[k])])

\* C8: in every state, crash states included: a checkpoint file that holds
\* start + len for a batch has that batch's duplicates_<start> completely
\* written; the checkpoint never holds a value strictly inside the batch
\* being processed; and it holds the batch's end only once every result is
\* collected and duplicates_<start_offset> is completely written.
C8_WholeBatchCommit ==
    /\ Exists(fs.checkpoint) =>
          \E len \in 1..MaxBatch :
             /\ fs.checkpoint - len >= 0
             /\ fs.duplicates[fs.checkpoint - len] =
                   PickleOf(DuplicatesOf(fs.checkpoint - len, len))
    /\ pc \in BatchLabels =>
          ~(start_offset < fs.checkpoint /\ fs.checkpoint < start_offset + Len(batch))
    /\ (pc \in BatchLabels /\ fs.checkpoint = start_offset + Len(batch)) =>
          /\ Len(results) = Len(batch)
          /\ fs.duplicates[start_offset] = PickleOf(Duplicates(batch, results))

\* a process was killed right after checkpoint_temp was renamed to
\* checkpoint, with the lock marker still there, in a commit of two pairs
C8_Witness ==
    /\ pc = "stopped"
    /\ crash_point = "pb_unlock"
    /\ fs.transaction_lock
    /\ fs.checkpoint = commit_new
    /\ commit_pre >= 0
    /\ commit_new = commit_pre + 2
    /\ fs.duplicates[commit_pre].state = "ok"

\* C9: once a commit has completed, in every state, between any two file
\* operations of a later commit and after a kill there, checkpoint or
\* checkpoint_old exists and holds a value a completed commit wrote.
C9_LoadableCheckpoint ==
    committed # {} =>
        \/ fs.checkpoint \in committed
        \/ fs.checkpoint_old \in committed

\* a process was killed between the two renames of a later commit: the
\* checkpoint file is gone and checkpoint_old holds the committed value
C9_Witness ==
    /\ pc = "stopped"
    /\ crash_point = "pb_promote"
    /\ committed # {}
    /\ ~Exists(fs.checkpoint)
    /\ fs.checkpoint_old \in committed

\* a running process_batch is between the creation of the lock marker and
\* its removal
InWindow == pc \in WindowLabels /\ fs.transaction_lock

MainLabels == RecoveryLabels \cup {"m_load", "m_loop", "m_drain"}

\* a run of main, as a valid instance, that found pairs of its range at or
\* after its resume offset has ended
RunWithWorkEnded ==
    /\ pc = "m_exit"
    /\ instance_count >= 1
    /\ instance < instance_count
    /\ checkpoint_offset < next_offset

\* C11: within one run of main the pairs of the owned range enter batches in
\* strictly increasing offset order and the batches commit in order: when a
\* run that had pairs to process has ended, the last batch it handed to
\* process_batch holds the consecutive pairs from its start offset on, it
\* starts at or after the resume offset, and the checkpoint the run wrote is
\* the end of that batch, above the resume offset.
C11_InOrderProcessing ==
    RunWithWorkEnded =>
        /\ Len(batch) >= 1
        /\ batch = BatchOf(start_offset, Len(batch))
        /\ start_offset >= checkpoint_offset
        /\ fs.checkpoint = start_offset + Len(batch)

\* C12: a start of main that finds no candidate-pair file ends the process
\* at once (no recovery, no load, no commit) with a non-zero exit status and
\* leaves the lock marker and the checkpoint files as they are.
C12_MissingPairFile ==
    [][(pc = "stopped" /\ pc' = "m_exit") =>
          /\ exit_status' # 0
          /\ fs' = fs]_vars

\* C13: an uninterrupted run of main that starts without a checkpoint on a
\* non-empty range ends normally, with every batch at most batch_size long
\* and with the checkpoint at the end of the range (the final partial batch
\* is committed before the loop ends).
C13_DriverLoop ==
    (pc = "m_exit" /\ instance_count >= 1 /\ instance = 0
        /\ pairs_per_instance >= 1 /\ checkpoint_offset = offset_start) =>
        /\ exit_status = 0
        /\ Len(batch) <= MaxBatch
        /\ fs.checkpoint = next_offset

\* C16: whenever the lock marker is absent (no commit in progress: after a
\* commit, after a recovery), the file checkpoint_old does not exist.
C16_OldTransient ==
    ~fs.transaction_lock => ~Exists(fs.checkpoint_old)

\* C20: main gets past its startup (to the recovery, the load or the loop)
\* only with 0 <= instance < instance_count; with any other parameters it
\* stops before the recovery, with a non-zero exit status.
C20_InvalidPartitionFatal ==
    /\ pc \in MainLabels => (0 <= instance /\ instance < instance_count)
    /\ (pc = "m_exit" /\ pair_count > 0 /\ ~(instance < instance_count)) =>
          exit_status # 0

\* C14: after any commits, kills and recoveries, every pair offset from the
\* start of the range up to the resume offset that the startup load returns
\* belongs to a batch whose commit completed, and a duplicates file written
\* at or below it exists: the resume skips no pair that was not processed.
C14_NoDroppedWork ==
    pc = "m_loop" =>
        \A o \in offset_start..(checkpoint_offset - 1) :
            o < pair_count =>
                /\ o \in processed
                /\ \E s \in 0..o : fs.duplicates[s].state = "ok"

\* the labels at which a killed commit has written duplicates_<start> and
\* has not yet renamed checkpoint_temp to checkpoint
AfterDuplicatesLabels == {"pb_open_temp", "pb_dump_temp", "pb_rotate_old", "pb_promote"}

\* no pair is held by two duplicates files
NoPairTwice(d) ==
    \A s, t \in DOMAIN d.duplicates :
        s # t =>
            {d.duplicates[s].data[k] : k \in 1..Len(d.duplicates[s].data)}
              \cap {d.duplicates[t].data[k] : k \in 1..Len(d.duplicates[t].data)} = {}

\* C15: a commit was killed after it wrote duplicates_<start> and before the
\* batch was committed; the run that resumes (one instance over the whole
\* file) starts its first batch at that same start offset, so that it
\* rewrites duplicates_<start>; and when a run has completed no pair is in
\* two duplicates files.
C15_ReprocessOverwrites ==
    /\ (pc = "m_load" /\ instance_count = 1 /\ instance = 0
           /\ crash_point \in AfterDuplicatesLabels) =>
          LoadCheckpoint(fs, offset_start) = CurrentOffsetOf(commit_pre)
    /\ (pc = "m_exit" /\ instance_count >= 1 /\ exit_status = 0) =>
          NoPairTwice(fs)

\* C17: a step of the recovery taken with the lock marker present and
\* checkpoint_temp absent changes nothing but the lock marker (checkpoint,
\* checkpoint_old and the duplicates files stay); the step that removes the
\* lock marker ends the recovery, and every file operation of the recovery
\* happens while the lock marker is still there.
C17_RecoveryFrame ==
    /\ [][(pc \in RecoveryLabels /\ fs.transaction_lock
              /\ ~Exists(fs.checkpoint_temp)) =>
             fs' \in {fs, RemoveLock(fs)}]_vars
    /\ [][(pc \in RecoveryLabels /\ fs.transaction_lock
              /\ ~fs'.transaction_lock) =>
             pc' = "m_load"]_vars
    /\ [][(pc \in RecoveryLabels /\ fs' # fs) => fs.transaction_lock]_vars

\* the recovery has run on the directory of a process killed after the
\* rename of checkpoint_temp to checkpoint: the lock marker is gone, the new
\* checkpoint and checkpoint_old are still there
C17_Witness ==
    /\ pc = "m_load"
    /\ crash_point = "pb_unlock"
    /\ ~fs.transaction_lock
    /\ fs.checkpoint = commit_new
    /\ Exists(fs.checkpoint_old)

\* C18: in every state, crash states included, checkpoint_temp exists only
\* while the lock marker exists; inside process_batch it exists only between
\* its opening and its rename to checkpoint; process_batch removes the lock
\* marker only after that rename, and no step removes the lock marker while
\* checkpoint_temp exists.
C18_LockBrackets ==
    /\ [](~fs.transaction_lock => ~Exists(fs.checkpoint_temp))
    /\ []((pc \in BatchLabels /\ Exists(fs.checkpoint_temp)) =>
             pc \in {"pb_dump_temp", "pb_rotate_old", "pb_promote"})
    /\ [][(pc \in BatchLabels /\ fs.transaction_lock /\ ~fs'.transaction_lock) =>
             fs.checkpoint = last_offset]_vars
    /\ [][(fs.transaction_lock /\ ~fs'.transaction_lock) =>
             ~Exists(fs.checkpoint_temp)]_vars

\* the recovery has run on the directory of a process killed with
\* checkpoint_temp written and checkpoint not yet renamed: checkpoint_temp
\* and the lock marker are gone
C18_Witness ==
    /\ pc = "m_load"
    /\ crash_point = "pb_rotate_old"
    /\ ~fs.transaction_lock
    /\ ~Exists(fs.checkpoint_temp)
    /\ commit_new > 0

\* C19: a batch in which the comparison of a pair fails is not aborted: the
\* call does not end with the task's exception, and when it returns the
\* batch is committed, the failed pairs are not in duplicates_<start>, the
\* other results are those of their own tasks, and a warning was logged.
C19_TaskFailureContained ==
    /\ pc # "pb_raised"
    /\ (pc = "pb_return"
          /\ \E k \in 1..Len(batch) : TaskFailed(TaskOutcome(batch[k]))) =>
          /\ fs.checkpoint = start_offset + Len(batch)
          /\ fs.duplicates[start_offset] = PickleOf(Duplicates(batch, results))
          /\ \A k \in 1..Len(batch) :
                IF TaskFailed(TaskOutcome(batch[k]))
                THEN ~Truthy(results[k])
                ELSE results[k] = TaskOutcome(batch[k])
          /\ warnings > 0

====
